---- MODULE Spec2Model ----
(***************************************************************************)
(* Model of the periodic on-chain maintenance loops of the lending API:    *)
(*   src/utils/pricefeed_task.py  (price-feed updater and its scheduler)   *)
(*   src/utils/liquidate_task.py  (liquidation scanner/executor and loop)  *)
(*                                                                         *)
(* Every state of the model is a state in which each asyncio task is       *)
(* suspended at an await; an action is the code that runs between two      *)
(* suspension points.  Results of RPC / HTTP calls are inputs drawn from   *)
(* the outcomes the awaited call can produce.                              *)
(***************************************************************************)
EXTENDS Integers, Sequences, FiniteSets, TLC

VARIABLES
    walletFile,   \* content class of configs/owner_wallet.json
    chain_nonce,  \* transaction count of the signing account at the node
    p_loop,       \* start_periodic_updates: "Start" | "Running" | "Sleeping" | "Exited"
    p_last,       \* how the cycle of this iteration ended ("none": it has not)
    p_cancel,     \* a cancellation of the price loop task is pending
    p_pc,         \* await at which update_price_task is suspended
    idr_rate,     \* update_price_task locals (rate classes)
    btc_rate,
    eth_rate,
    p_i,          \* index of the current entry of contract_addresses (0: none)
    p_try,        \* 1: first call for the entry, 2: the retry
    success,      \* local `success` of update_price_task
    calls,        \* per target: update_blockchain_price invocations this cycle
    sent,         \* per target: transactions the node took this cycle
    a_sent,       \* the current/last attempt obtained tx_hash
    a_end,        \* where the current/last attempt returned
    gas_limit,    \* gas_limit local of the current/last attempt
    private_key,  \* local private_key of update_price_task
    p_nonce,      \* local nonce of the current/last attempt (-1: not read)
    p_workers,    \* send calls still running in executor threads after their
                  \* await was given up: <<entry, try>>, <<0, 0>>: earlier cycle
    l_loop,       \* start_periodic_liquidations: "Start" | "Running" | "Sleeping" | "Exited"
    l_cancel,     \* a cancellation of the liquidation loop task is pending
    l_pc,         \* await at which liquidate_task is suspended
    l_step,       \* what the executor thread of the liquidation job is doing
    collaterals,  \* local `collaterals` of liquidate_task
    logs,         \* borrowers of the Borrowed logs the scan of this cycle read
    users,        \* local `users` of liquidate_task
    l_u,          \* position of the outer loop in users (0: not in the loop)
    l_t,          \* position of the inner loop in collaterals
    attempts,     \* perform_liquidation invocations of this cycle, in order
    results,      \* values returned by them, in order
    l_nonce,      \* local nonce of the current/last perform_liquidation
                  \* (-1: not read)
    scan,         \* get_active_loan_users of this cycle: "none" (not ended),
                  \* "ok" (returned list(users)), "failed" (returned [])
    manual,       \* per job, the cycles added by its manual trigger: how many
                  \* are pending, running, returned, timed_out, and the
                  \* acknowledgments (acks) the trigger has returned
    rate_call,    \* one get_btc_to_usd / get_eth_to_usd call: the coin, the
                  \* price_usd of the response (in cents) and the value
                  \* returned (rate = rate[1] * 10^6 + rate[2])
    nonce_cache,  \* auth_utils.nonce_cache: per wallet the nonce stored (0: no
                  \* entry) and whether expires_at has passed
    clock,        \* nonces generated so far (a nonce is wallet:timestamp)
    accepted,     \* per (wallet, message): verify_signature calls that
                  \* returned True for the wallet's signature of the message
    l_gas,        \* gas_limit of the running perform_liquidation: "unset"
                  \* until estimate_gas has returned
    l_status,     \* status of the receipt the last perform_liquidation of
                  \* the cycle obtained
    auth_resp,    \* the last answer of POST /auth/verify
    profiles,     \* table wallet_profiles: per wallet whether a row exists,
                  \* its non-empty required fields and profile_completed
    proposals,    \* table business_proposals with the document rows of each
                  \* proposal and its proposal_tags rows
    tags,         \* table tags
    created,      \* proposal ids generated so far
    api_resp      \* the last answer of a profile / proposal endpoint

priceVars == <<p_loop, p_last, p_cancel, p_pc, idr_rate, btc_rate, eth_rate,
               p_i, p_try, success, calls, sent, a_sent, a_end, gas_limit,
               private_key, p_nonce, p_workers>>

liqVars == <<l_loop, l_cancel, l_pc, l_step, collaterals, logs, users, l_u,
             l_t, attempts, results, l_nonce, scan, l_gas,
             l_status>>

\* State outside the two periodic loops
authVars == <<nonce_cache, clock, accepted, auth_resp>>

dbVars == <<profiles, proposals, tags, created, api_resp>>

sideVars == <<manual, rate_call, authVars, dbVars>>

vars == <<walletFile, chain_nonce, priceVars, liqVars, sideVars>>

----------------------------------------------------------------------------
(* Configuration of the price feed                                         *)

\* contract_addresses, in list order
Targets == <<"IDRX", "BTC", "ETH", "USDT">>

NTargets == Len(Targets)

TargetIdx == 1..NTargets

\* A rate is abstracted to what the code distinguishes: None, 0, or a
\* positive integer.  "Unset" is a local not assigned yet.
RateClasses == {"None", "Zero", "Pos"}

\* usdt_rate = 100000000
usdt_rate == "Pos"

\* Python truthiness of `int | None`: `not r` holds for None and for 0
Falsy(r) == r \in {"None", "Zero"}

\* contract["rate"] of entry i
RateOf(i) ==
    CASE Targets[i] = "IDRX" -> idr_rate
      [] Targets[i] = "BTC"  -> btc_rate
      [] Targets[i] = "ETH"  -> eth_rate
      [] Targets[i] = "USDT" -> usdt_rate

\* wallets[0].get('private_key') can be used: the file loads and holds a key
WalletFiles == {"missing", "nokey", "badkey", "ok"}

ZeroCalls == [i \in TargetIdx |-> 0]

----------------------------------------------------------------------------
(* update_blockchain_price(address, rate, private_key)                     *)

\* The call of update_blockchain_price for entry i (t = 1: line 237, t = 2:
\* the retry of line 247) up to its first await.  from_key raises on a key
\* that does not decode; the outer handler turns that into False.
Invoke(i, t) ==
    /\ calls' = [calls EXCEPT ![i] = @ + 1]
    /\ p_i' = i
    /\ p_try' = t
    /\ a_sent' = FALSE
    /\ gas_limit' = "unset"
    /\ p_nonce' = -1
    /\ IF private_key = "badkey"
         THEN /\ a_end' = "init_error"
              /\ success' = FALSE
              /\ p_pc' = IF t = 1 THEN "retry_sleep" ELSE "delay"
         ELSE /\ a_end' = "running"
              /\ success' = success
              /\ p_pc' = "nonce"

\* Return as it would be if update_price_task retried only an attempt that
\* had not broadcast its transaction
Return_NoRetryAfterBroadcast(b, end) ==
    /\ success' = b
    /\ a_end' = end
    /\ p_pc' = IF p_try = 1 /\ ~b /\ ~a_sent THEN "retry_sleep" ELSE "delay"

\* `return b` of update_blockchain_price, and what update_price_task does
\* with it up to its next await: a False first result leads to the 2 s sleep
\* before the retry, everything else to the 2 s delay after the entry.
Return(b, end) ==
    /\ success' = b
    /\ a_end' = end
    /\ p_pc' = IF p_try = 1 /\ ~b THEN "retry_sleep" ELSE "delay"

RpcOutcomes == {"ok", "timeout", "error"}

\* UBP_Nonce as it would be without the outer handler of line 191: an RPC
\* error of the call is raised into update_price_task, whose handler of
\* line 256 ends the cycle
UBP_Nonce_ErrorEscapes ==
    /\ p_loop = "Running" /\ ~p_cancel
    /\ p_pc = "nonce"
    /\ \E o \in RpcOutcomes :
         CASE o = "ok"      -> /\ p_nonce' = chain_nonce
                               /\ p_pc' = "gas"
                               /\ UNCHANGED <<success, a_end>>
           [] o = "timeout" -> /\ Return(FALSE, "nonce_timeout")
                               /\ UNCHANGED p_nonce
           [] o = "error"   -> /\ p_pc' = "done"
                               /\ a_end' = "nonce_error"
                               /\ UNCHANGED <<success, p_nonce>>
    /\ UNCHANGED <<liqVars, sideVars>>
    /\ UNCHANGED <<walletFile, chain_nonce, p_loop, p_last, p_cancel, idr_rate,
                   btc_rate, eth_rate, p_i, p_try, calls, sent, a_sent,
                   gas_limit, private_key, p_workers>>

\* await wait_for(get_transaction_count, 30)
UBP_Nonce ==
    /\ p_loop = "Running" /\ ~p_cancel
    /\ p_pc = "nonce"
    /\ \E o \in RpcOutcomes :
         CASE o = "ok"      -> /\ p_nonce' = chain_nonce
                               /\ p_pc' = "gas"
                               /\ UNCHANGED <<success, a_end>>
           [] o = "timeout" -> /\ Return(FALSE, "nonce_timeout")
                               /\ UNCHANGED p_nonce
           [] o = "error"   -> /\ Return(FALSE, "nonce_error")
                               /\ UNCHANGED p_nonce
    /\ UNCHANGED <<liqVars, sideVars>>
    /\ UNCHANGED <<walletFile, chain_nonce, p_loop, p_last, p_cancel, idr_rate,
                   btc_rate, eth_rate, p_i, p_try, calls, sent, a_sent,
                   gas_limit, private_key, p_workers>>

\* Outcomes of the gas estimation: updateAnswer(None) cannot be encoded, so
\* the call raises inside the worker
GasOutcomes(i) == IF RateOf(i) = "None" THEN {"error"} ELSE RpcOutcomes

\* UBP_EstimateGas as it would be without the fallback of lines 144-147: an
\* error of the estimation ends the attempt like its timeout
UBP_EstimateGas_ErrorAborts ==
    /\ p_loop = "Running" /\ ~p_cancel
    /\ p_pc = "gas"
    /\ \E o \in GasOutcomes(p_i) :
         CASE o = "ok"      -> /\ gas_limit' = "estimated"
                               /\ p_pc' = "gasprice"
                               /\ UNCHANGED <<success, a_end>>
           [] o = "timeout" -> /\ Return(FALSE, "gas_timeout")
                               /\ UNCHANGED gas_limit
           [] o = "error"   -> /\ Return(FALSE, "gas_error")
                               /\ UNCHANGED gas_limit
    /\ UNCHANGED <<liqVars, sideVars>>
    /\ UNCHANGED <<walletFile, chain_nonce, p_loop, p_last, p_cancel, idr_rate,
                   btc_rate, eth_rate, p_i, p_try, calls, sent, a_sent,
                   private_key, p_nonce, p_workers>>

\* await wait_for(updateAnswer(rate).estimate_gas, 30)
UBP_EstimateGas ==
    /\ p_loop = "Running" /\ ~p_cancel
    /\ p_pc = "gas"
    /\ \E o \in GasOutcomes(p_i) :
         CASE o = "ok"      -> /\ gas_limit' = "estimated"
                               /\ p_pc' = "gasprice"
                               /\ UNCHANGED <<success, a_end>>
           [] o = "timeout" -> /\ Return(FALSE, "gas_timeout")
                               /\ UNCHANGED gas_limit
           [] o = "error"   -> /\ gas_limit' = "default"
                               /\ p_pc' = "gasprice"
                               /\ UNCHANGED <<success, a_end>>
    /\ UNCHANGED <<liqVars, sideVars>>
    /\ UNCHANGED <<walletFile, chain_nonce, p_loop, p_last, p_cancel, idr_rate, btc_rate,
                   eth_rate, p_i, p_try, calls, sent, a_sent, private_key, p_nonce, p_workers>>

\* Outcomes of build_transaction + sign_transaction (no await in between)
BuildOutcomes(i) == IF RateOf(i) = "None" THEN {"error"} ELSE {"ok", "error"}

\* await wait_for(gas_price, 30), then build and sign
UBP_GasPrice ==
    /\ p_loop = "Running" /\ ~p_cancel
    /\ p_pc = "gasprice"
    /\ \E o \in RpcOutcomes, b \in BuildOutcomes(p_i) :
         CASE o = "timeout" -> Return(FALSE, "gasprice_timeout")
           [] o = "error"   -> Return(FALSE, "gasprice_error")
           [] o = "ok" /\ b = "error" -> Return(FALSE, "build_error")
           [] o = "ok" /\ b = "ok" -> /\ p_pc' = "send"
                                      /\ UNCHANGED <<success, a_end>>
    /\ UNCHANGED <<liqVars, sideVars>>
    /\ UNCHANGED <<walletFile, chain_nonce, p_loop, p_last, p_cancel, idr_rate, btc_rate,
                   eth_rate, p_i, p_try, calls, sent, a_sent, gas_limit,
                   private_key, p_nonce, p_workers>>

\* What send_raw_transaction can produce for a transaction of nonce n: the
\* node refuses a nonce below the account's transaction count
SendOutcomes(outcomes, n) ==
    IF n < chain_nonce THEN outcomes \ {"ok"} ELSE outcomes

\* await wait_for(send_raw_transaction, 30); the timeout here is the one in
\* which the call ends together with the wait (the request fails at the 30 s
\* of the provider).  UBP_SendOutlived is the one in which it does not.
UBP_Send ==
    /\ p_loop = "Running" /\ ~p_cancel
    /\ p_pc = "send"
    /\ \E o \in SendOutcomes(RpcOutcomes, p_nonce) :
         CASE o = "ok"      -> /\ a_sent' = TRUE
                               /\ sent' = [sent EXCEPT ![p_i] = @ + 1]
                               /\ p_pc' = "receipt"
                               /\ UNCHANGED <<success, a_end, p_workers>>
           [] o = "timeout" -> /\ Return(FALSE, "send_timeout")
                               /\ UNCHANGED <<a_sent, sent, p_workers>>
           [] o = "error"   -> /\ Return(FALSE, "send_error")
                               /\ UNCHANGED <<a_sent, sent, p_workers>>
    /\ UNCHANGED <<liqVars, sideVars>>
    /\ UNCHANGED <<walletFile, chain_nonce, p_loop, p_last, p_cancel, idr_rate,
                   btc_rate, eth_rate, p_i, p_try, calls, gas_limit,
                   private_key, p_nonce>>

\* The 30 s of wait_for(send_raw_transaction) elapse while the call is still
\* running in its executor thread: run_in_executor threads cannot be
\* cancelled, so the coroutine returns False and the call goes on.  (Calls
\* that only read the chain have no effect once given up and are not traced.)
UBP_SendOutlived ==
    /\ p_loop = "Running" /\ ~p_cancel
    /\ p_pc = "send"
    /\ Return(FALSE, "send_timeout")
    /\ p_workers' = p_workers \cup {<<p_i, p_try>>}
    /\ UNCHANGED <<liqVars, sideVars>>
    /\ UNCHANGED <<walletFile, chain_nonce, p_loop, p_last, p_cancel, idr_rate,
                   btc_rate, eth_rate, p_i, p_try, calls, sent, a_sent,
                   gas_limit, private_key, p_nonce>>

\* The send call whose await was given up ends in its executor thread: the
\* node took the transaction, or the call failed
PriceWorkerEnds ==
    /\ \E w \in p_workers, o \in {"ok", "error"} :
         /\ p_workers' = p_workers \ {w}
         /\ sent' = IF o = "ok" /\ w[1] \in TargetIdx
                      THEN [sent EXCEPT ![w[1]] = @ + 1]
                      ELSE sent
    /\ UNCHANGED <<liqVars, sideVars>>
    /\ UNCHANGED <<walletFile, chain_nonce, p_loop, p_last, p_cancel, p_pc,
                   idr_rate, btc_rate, eth_rate, p_i, p_try, success, calls,
                   a_sent, a_end, gas_limit, private_key, p_nonce>>

\* Awaits of update_blockchain_price
AttemptAwaits == {"nonce", "gas", "gasprice", "send", "receipt"}

\* Values of a_end with which update_blockchain_price returns True
TrueEnds == {"receipt", "receipt_reverted", "confirm_wrapper_timeout"}

\* What the receipt wait can produce: a receipt of status 1; a receipt of
\* status 0 ("reverted"); asyncio.TimeoutError of the
\* 150 s wrapper; web3's TimeExhausted after the 120 s of the library call
\* (an Exception that is no asyncio.TimeoutError); any other RPC error.
ReceiptOutcomes ==
    {"receipt", "reverted", "wrapper_timeout", "lib_timeout", "error"}

\* Status field of a transaction receipt
ReceiptStatus == {"success", "reverted"}

\* ReceiptResult as it would be if a receipt of status 0 counted as a failure
ReceiptResult_StatusChecked(o) == o \in {"receipt", "wrapper_timeout"}

\* The value update_blockchain_price returns for an outcome of the wait:
\* lines 185 and 189 return True, the outer handler of line 191 False.
ReceiptResult(o) == o \in {"receipt", "reverted", "wrapper_timeout"}

\* await wait_for(wait_for_transaction_receipt(tx_hash, timeout=120), 150)
UBP_Receipt ==
    /\ p_loop = "Running" /\ ~p_cancel
    /\ p_pc = "receipt"
    /\ \E o \in ReceiptOutcomes :
         Return(ReceiptResult(o),
                CASE o = "receipt"         -> "receipt"
                  [] o = "reverted"        -> "receipt_reverted"
                  [] o = "wrapper_timeout" -> "confirm_wrapper_timeout"
                  [] o = "lib_timeout"     -> "confirm_lib_timeout"
                  [] o = "error"           -> "receipt_error")
    /\ UNCHANGED <<liqVars, sideVars>>
    /\ UNCHANGED <<walletFile, chain_nonce, p_loop, p_last, p_cancel, idr_rate, btc_rate,
                   eth_rate, p_i, p_try, calls, sent, a_sent, gas_limit,
                   private_key, p_nonce, p_workers>>

----------------------------------------------------------------------------
(* update_price_task()                                                     *)

\* Awaits of update_price_task at which the task can be suspended
PriceAwaits == {"get_idr", "get_btc", "get_eth", "nonce", "gas", "gasprice",
                "send", "receipt", "retry_sleep", "delay"}

\* PriceLoadConfig as it would be if a failed load were fatal to the job: the
\* loop task ends instead of going on to its sleep
PriceLoadConfig_FailureEndsJob ==
    /\ p_loop = "Running" /\ ~p_cancel
    /\ p_pc = "load_config"
    /\ IF walletFile \in {"missing", "nokey"}
         THEN /\ p_pc' = "aborted"
              /\ p_loop' = "Exited"
              /\ UNCHANGED private_key
         ELSE /\ private_key' = walletFile
              /\ p_pc' = "get_idr"
              /\ UNCHANGED p_loop
    /\ UNCHANGED <<liqVars, sideVars>>
    /\ UNCHANGED <<walletFile, chain_nonce, p_last, p_cancel, idr_rate, btc_rate,
                   eth_rate, p_i, p_try, success, calls, sent, a_sent, a_end,
                   gas_limit, p_nonce, p_workers>>

\* load_wallet_config() and wallets[0].get('private_key'): a file that
\* cannot be loaded or holds no key raises into the handler of line 256
PriceLoadConfig ==
    /\ p_loop = "Running" /\ ~p_cancel
    /\ p_pc = "load_config"
    /\ IF walletFile \in {"missing", "nokey"}
         THEN /\ p_pc' = "done"
              /\ UNCHANGED private_key
         ELSE /\ private_key' = walletFile
              /\ p_pc' = "get_idr"
    /\ UNCHANGED <<liqVars, sideVars>>
    /\ UNCHANGED <<walletFile, chain_nonce, p_loop, p_last, p_cancel, idr_rate, btc_rate,
                   eth_rate, p_i, p_try, success, calls, sent, a_sent, a_end,
                   gas_limit, p_nonce, p_workers>>

\* idr_rate = await get_idr_to_usd()
PriceGetIdr ==
    /\ p_loop = "Running" /\ ~p_cancel
    /\ p_pc = "get_idr"
    /\ \E r \in RateClasses : idr_rate' = r
    /\ p_pc' = "get_btc"
    /\ UNCHANGED <<liqVars, sideVars>>
    /\ UNCHANGED <<walletFile, chain_nonce, p_loop, p_last, p_cancel, btc_rate, eth_rate,
                   p_i, p_try, success, calls, sent, a_sent, a_end, gas_limit,
                   private_key, p_nonce, p_workers>>

\* btc_rate = await get_btc_to_usd()
PriceGetBtc ==
    /\ p_loop = "Running" /\ ~p_cancel
    /\ p_pc = "get_btc"
    /\ \E r \in RateClasses : btc_rate' = r
    /\ p_pc' = "get_eth"
    /\ UNCHANGED <<liqVars, sideVars>>
    /\ UNCHANGED <<walletFile, chain_nonce, p_loop, p_last, p_cancel, idr_rate, eth_rate,
                   p_i, p_try, success, calls, sent, a_sent, a_end, gas_limit,
                   private_key, p_nonce, p_workers>>

\* The guard of line 212: the cycle returns before the loop over the targets
RatesMissing == Falsy(idr_rate) \/ Falsy(btc_rate)

\* eth_rate = await get_eth_to_usd(), the check of line 212 and, past it,
\* the first call of update_blockchain_price
PriceGetEth ==
    /\ p_loop = "Running" /\ ~p_cancel
    /\ p_pc = "get_eth"
    /\ \E r \in RateClasses : eth_rate' = r
    /\ IF RatesMissing
         THEN /\ p_pc' = "done"
              /\ UNCHANGED <<p_i, p_try, success, calls, a_sent, a_end,
                             gas_limit, p_nonce>>
         ELSE Invoke(1, 1)
    /\ UNCHANGED <<liqVars, sideVars>>
    /\ UNCHANGED <<walletFile, chain_nonce, p_loop, p_last, p_cancel, idr_rate, btc_rate,
                   sent, private_key, p_workers>>

\* await asyncio.sleep(2) of line 244 returns: the retry
PriceRetry ==
    /\ p_loop = "Running" /\ ~p_cancel
    /\ p_pc = "retry_sleep"
    /\ Invoke(p_i, 2)
    /\ UNCHANGED <<liqVars, sideVars>>
    /\ UNCHANGED <<walletFile, chain_nonce, p_loop, p_last, p_cancel, idr_rate, btc_rate,
                   eth_rate, sent, private_key, p_workers>>

\* await asyncio.sleep(2) of line 254 returns: the next entry, or the end
PriceNextTarget ==
    /\ p_loop = "Running" /\ ~p_cancel
    /\ p_pc = "delay"
    /\ IF p_i < NTargets
         THEN Invoke(p_i + 1, 1)
         ELSE /\ p_pc' = "done"
              /\ UNCHANGED <<p_i, p_try, success, calls, a_sent, a_end,
                             gas_limit, p_nonce>>
    /\ UNCHANGED <<liqVars, sideVars>>
    /\ UNCHANGED <<walletFile, chain_nonce, p_loop, p_last, p_cancel, idr_rate, btc_rate,
                   eth_rate, sent, private_key, p_workers>>

----------------------------------------------------------------------------
(* start_periodic_updates()                                                *)

\* The loop body starts: wait_for(update_price_task(), 300) with fresh locals.
\* From "Sleeping" this is the return of asyncio.sleep(interval_seconds).
PriceLoopIterate ==
    /\ p_loop \in {"Start", "Sleeping"} /\ ~p_cancel
    /\ p_loop' = "Running"
    /\ p_pc' = "load_config"
    /\ idr_rate' = "Unset" /\ btc_rate' = "Unset" /\ eth_rate' = "Unset"
    /\ private_key' = "Unset"
    /\ p_i' = 0 /\ p_try' = 1 /\ success' = FALSE
    /\ calls' = ZeroCalls /\ sent' = ZeroCalls
    /\ a_sent' = FALSE /\ a_end' = "none" /\ gas_limit' = "unset"
    /\ p_last' = "none"
    /\ p_nonce' = -1
    /\ p_workers' = IF p_workers = {} THEN {} ELSE {<<0, 0>>}
    /\ UNCHANGED <<liqVars, sideVars>>
    /\ UNCHANGED <<walletFile, chain_nonce, p_cancel>>

\* update_price_task returned (it raises no Exception): on to the sleep
PriceCycleReturn ==
    /\ p_loop = "Running" /\ ~p_cancel
    /\ p_pc = "done"
    /\ p_loop' = "Sleeping"
    /\ p_last' = "Succeeded"
    /\ UNCHANGED <<liqVars, sideVars>>
    /\ UNCHANGED <<walletFile, chain_nonce, p_cancel, p_pc, idr_rate, btc_rate, eth_rate,
                   p_i, p_try, success, calls, sent, a_sent, a_end, gas_limit,
                   private_key, p_nonce, p_workers>>

\* AfterTimeout as it would be if the handler went on with the next iteration
\* (a `continue` before the sleep)
AfterTimeout_NoSleep == "Running"

\* Where the loop goes when wait_for raised asyncio.TimeoutError: the handler
\* of line 284 only prints, and line 290 sleeps
AfterTimeout == "Sleeping"

\* The 300 s of wait_for elapse: the cycle is cancelled at its await
PriceCycleTimeout ==
    /\ p_loop = "Running" /\ ~p_cancel
    /\ p_pc \in PriceAwaits
    /\ p_pc' = IF AfterTimeout = "Running" THEN "load_config" ELSE "aborted"
    /\ p_loop' = AfterTimeout
    /\ p_last' = "TimedOut"
    /\ UNCHANGED <<liqVars, sideVars>>
    /\ UNCHANGED <<walletFile, chain_nonce, p_cancel, idr_rate, btc_rate, eth_rate,
                   p_i, p_try, success, calls, sent, a_sent, a_end, gas_limit,
                   private_key, p_nonce, p_workers>>

\* The shutdown hook calls cancel() on the loop task
PriceShutdown ==
    /\ p_loop # "Exited" /\ ~p_cancel
    /\ p_cancel' = TRUE
    /\ UNCHANGED <<liqVars, sideVars>>
    /\ UNCHANGED <<walletFile, chain_nonce, p_loop, p_last, p_pc, idr_rate, btc_rate,
                   eth_rate, p_i, p_try, success, calls, sent, a_sent, a_end,
                   gas_limit, private_key, p_nonce, p_workers>>

\* PriceOnCancel as it would be if the loop's handler caught the cancellation
\* like any other failure of a cycle: on to the sleep
PriceOnCancel_Swallowed == "Sleeping"

\* What the task does with the CancelledError raised at its await: neither
\* `except asyncio.TimeoutError` nor `except Exception` catches it, in
\* update_blockchain_price, update_price_task and the loop alike
PriceOnCancel == "Exited"

\* PriceCancelled as it would be if cancellation were looked at only by the
\* loop, between cycles: a running cycle takes the signal as a failed call
\* and goes on
PriceCancelled_BetweenCyclesOnly ==
    /\ p_cancel
    /\ p_loop # "Exited"
    /\ IF p_loop = "Running" /\ p_pc \in {"nonce", "gas", "gasprice", "send", "receipt"}
         THEN /\ Return(FALSE, "cancelled")
              /\ UNCHANGED <<p_cancel, p_loop, p_last>>
         ELSE /\ p_cancel' = FALSE
              /\ p_loop' = "Exited"
              /\ p_last' = IF p_loop = "Running" THEN "Cancelled" ELSE p_last
              /\ p_pc' = IF p_loop = "Running" /\ p_pc # "done" THEN "aborted" ELSE p_pc
              /\ UNCHANGED <<success, a_end>>
    /\ UNCHANGED <<liqVars, sideVars>>
    /\ UNCHANGED <<walletFile, chain_nonce, idr_rate, btc_rate, eth_rate,
                   p_i, p_try, calls, sent, a_sent, gas_limit, private_key,
                   p_nonce, p_workers>>

\* CancelledError is raised at the await the task is suspended at
PriceCancelled ==
    /\ p_cancel
    /\ p_loop # "Exited"
    /\ p_cancel' = FALSE
    /\ p_loop' = PriceOnCancel
    /\ p_pc' = IF p_loop = "Running" /\ p_pc # "done" THEN "aborted" ELSE p_pc
    /\ p_last' = IF p_loop = "Running" THEN "Cancelled" ELSE p_last
    /\ UNCHANGED <<liqVars, sideVars>>
    /\ UNCHANGED <<walletFile, chain_nonce, idr_rate, btc_rate, eth_rate,
                   p_i, p_try, success, calls, sent, a_sent, a_end, gas_limit,
                   private_key, p_nonce, p_workers>>

\* PriceCycleTimeoutOutlived as it would be if update_blockchain_price ran
\* in the executor thread as a whole (as perform_liquidation does): the
\* thread of an attempt aborted before its send goes on to build and send
PriceCycleTimeoutOutlived_AttemptInThread ==
    /\ p_loop = "Running" /\ ~p_cancel
    /\ p_pc \in {"nonce", "gas", "gasprice", "send"}
    /\ p_pc' = "aborted"
    /\ p_loop' = AfterTimeout
    /\ p_last' = "TimedOut"
    /\ p_workers' = p_workers \cup {<<p_i, p_try>>}
    /\ UNCHANGED <<liqVars, sideVars>>
    /\ UNCHANGED <<walletFile, chain_nonce, p_cancel, idr_rate, btc_rate,
                   eth_rate, p_i, p_try, success, calls, sent, a_sent, a_end,
                   gas_limit, private_key, p_nonce>>

\* The 300 s of wait_for(update_price_task()) elapse while a
\* send_raw_transaction call is running in its executor thread: the
\* coroutine is cancelled at its await, the call goes on.  (PriceCycleTimeout
\* is the timeout at which no call that can change the chain is running.)
PriceCycleTimeoutOutlived ==
    /\ p_loop = "Running" /\ ~p_cancel
    /\ p_pc = "send"
    /\ p_pc' = "aborted"
    /\ p_loop' = AfterTimeout
    /\ p_last' = "TimedOut"
    /\ p_workers' = p_workers \cup {<<p_i, p_try>>}
    /\ UNCHANGED <<liqVars, sideVars>>
    /\ UNCHANGED <<walletFile, chain_nonce, p_cancel, idr_rate, btc_rate,
                   eth_rate, p_i, p_try, success, calls, sent, a_sent, a_end,
                   gas_limit, private_key, p_nonce>>

\* CancelledError is raised at the await of a send_raw_transaction call that
\* goes on in its executor thread
PriceCancelledOutlived ==
    /\ p_cancel
    /\ p_loop = "Running" /\ p_pc = "send"
    /\ p_cancel' = FALSE
    /\ p_loop' = PriceOnCancel
    /\ p_pc' = "aborted"
    /\ p_last' = "Cancelled"
    /\ p_workers' = p_workers \cup {<<p_i, p_try>>}
    /\ UNCHANGED <<liqVars, sideVars>>
    /\ UNCHANGED <<walletFile, chain_nonce, idr_rate, btc_rate, eth_rate,
                   p_i, p_try, success, calls, sent, a_sent, a_end, gas_limit,
                   private_key, p_nonce>>

----------------------------------------------------------------------------
(* Inputs of the liquidation job                                           *)

\* Borrower and collateral token addresses the chain can hold
Users == {"u1", "u2"}

Tokens == {"t1", "t2"}

\* Longest Borrowed log and longest collateral list the chain returns
MaxLogs == 3

MaxTokens == 2

SeqsUpTo(S, n) == UNION {[1..k -> S] : k \in 0..n}

Range(f) == {f[k] : k \in DOMAIN f}

\* list(set): the elements of S, each once, in an order the hash decides
Orderings(S) ==
    {f \in [1..Cardinality(S) -> S] : Range(f) = S}

----------------------------------------------------------------------------
(* liquidate_task() and perform_liquidation()                              *)

\* The coroutine of the cycle is waiting for the executor
LiqAwaiting == l_loop = "Running" /\ ~l_cancel

\* perform_liquidation is submitted to the executor for users[u], collaterals[t]
InvokePair(us, u, t) ==
    /\ l_u' = u
    /\ l_t' = t
    /\ attempts' = Append(attempts, <<us[u], collaterals[t]>>)
    /\ l_pc' = "liquidate"
    /\ l_step' = "estimate"
    /\ l_nonce' = -1
    /\ l_gas' = "unset"

\* The nested for loops of lines 150-151 from the pair after (u, t) on
Advance(us, u, t) ==
    IF t < Len(collaterals)
      THEN InvokePair(us, u, t + 1)
      ELSE IF u < Len(us)
             THEN InvokePair(us, u + 1, 1)
             ELSE /\ l_pc' = "done"
                  /\ l_step' = "idle"
                  /\ l_nonce' = -1
                  /\ UNCHANGED <<l_u, l_t, attempts, l_gas>>

\* The loops of lines 150-151 are entered with users = us
StartLoops(us) ==
    IF Len(us) > 0 /\ Len(collaterals) > 0
      THEN InvokePair(us, 1, 1)
      ELSE /\ l_pc' = "done"
           /\ l_step' = "idle"
           /\ UNCHANGED <<l_u, l_t, attempts, l_nonce, l_gas>>

\* PLReturn as it would be if a failed attempt ended the loops (the failure
\* raised into liquidate_task instead of being returned)
PLReturn_FailureEndsLoops(b) ==
    /\ results' = Append(results, b)
    /\ IF LiqAwaiting /\ b
         THEN Advance(users, l_u, l_t)
         ELSE /\ l_step' = "idle"
              /\ l_pc' = IF LiqAwaiting THEN "done" ELSE l_pc
              /\ l_nonce' = -1
              /\ UNCHANGED <<l_u, l_t, attempts, l_gas>>

\* perform_liquidation returns b in the executor thread; the coroutine, if it
\* still waits for it, goes on with the next pair
PLReturn(b) ==
    /\ results' = Append(results, b)
    /\ IF LiqAwaiting
         THEN Advance(users, l_u, l_t)
         ELSE /\ l_step' = "idle"
              /\ l_nonce' = -1
              /\ l_gas' = "unset"
              /\ UNCHANGED <<l_pc, l_u, l_t, attempts>>

\* load_wallet_config, the key check, Web3 and account set-up (lines 118-131)
\* and the submission of getCollateralTokens().call to the executor
LiqLoadConfig ==
    /\ LiqAwaiting
    /\ l_pc = "load_config"
    /\ IF walletFile = "ok"
         THEN /\ l_pc' = "get_collaterals"
              /\ l_step' = "collaterals"
         ELSE /\ l_pc' = "done"
              /\ UNCHANGED l_step
    /\ UNCHANGED <<l_loop, l_cancel, collaterals, logs, scan, users, l_u, l_t,
                   attempts, results, l_nonce, l_gas>>
    /\ UNCHANGED l_status
    /\ UNCHANGED <<walletFile, chain_nonce, priceVars, sideVars>>

\* getCollateralTokens().call ends in the executor thread
LiqGetCollaterals ==
    /\ l_step = "collaterals"
    /\ \/ \E ts \in SeqsUpTo(Tokens, MaxTokens) :
            IF LiqAwaiting
              THEN /\ collaterals' = ts
                   /\ l_pc' = "get_users"
                   /\ l_step' = "logs"
              ELSE /\ l_step' = "idle"
                   /\ UNCHANGED <<collaterals, l_pc>>
       \/ \* the call raises: handler of line 163
          /\ l_step' = "idle"
          /\ l_pc' = IF LiqAwaiting THEN "done" ELSE l_pc
          /\ UNCHANGED collaterals
       \/ \* the call never returns
          /\ l_step' = "hung"
          /\ UNCHANGED <<collaterals, l_pc>>
    /\ UNCHANGED <<l_loop, l_cancel, logs, scan, users, l_u, l_t, attempts, results,
                   l_nonce, l_gas>>
    /\ UNCHANGED l_status
    /\ UNCHANGED <<walletFile, chain_nonce, priceVars, sideVars>>

\* ActiveLoanUsers as it would be with a list instead of the set: one entry
\* per Borrowed event
ActiveLoanUsers_PerEvent(lg) == {lg}

\* get_active_loan_users(web3, contract) for a Borrowed log with borrowers
\* lg: the distinct borrowers as a list
ActiveLoanUsers(lg) == Orderings(Range(lg))

\* LiqGetUsers as it would be if a failed scan left the cycle with a user to
\* work on instead of the empty list
LiqGetUsers_FailedScanKeepsUser ==
    /\ l_step = "logs"
    /\ \/ \E lg \in SeqsUpTo(Users, MaxLogs) : \E us \in ActiveLoanUsers(lg) :
            IF LiqAwaiting
              THEN /\ logs' = lg
                   /\ users' = us
                   /\ scan' = "ok"
                   /\ StartLoops(us)
              ELSE /\ l_step' = "idle"
                   /\ UNCHANGED <<logs, scan, users, l_pc, l_u, l_t, attempts,
                             l_nonce, l_gas>>
       \/ \* get_logs or process_log raises: the function returns []
          IF LiqAwaiting
            THEN /\ logs' = <<>>
                 /\ \E u \in Users :
                      /\ users' = <<u>>
                      /\ StartLoops(<<u>>)
                 /\ scan' = "failed"
            ELSE /\ l_step' = "idle"
                 /\ UNCHANGED <<logs, scan, users, l_pc, l_u, l_t, attempts,
                             l_nonce, l_gas>>
       \/ \* get_logs never returns
          /\ l_step' = "hung"
          /\ UNCHANGED <<logs, scan, users, l_pc, l_u, l_t, attempts,
                             l_nonce, l_gas>>
    /\ UNCHANGED <<l_loop, l_cancel, collaterals, results>>
    /\ UNCHANGED l_status
    /\ UNCHANGED <<walletFile, chain_nonce, priceVars, sideVars>>

\* get_active_loan_users ends in the executor thread, and the loops start
LiqGetUsers ==
    /\ l_step = "logs"
    /\ \/ \E lg \in SeqsUpTo(Users, MaxLogs) : \E us \in ActiveLoanUsers(lg) :
            IF LiqAwaiting
              THEN /\ logs' = lg
                   /\ users' = us
                   /\ scan' = "ok"
                   /\ StartLoops(us)
              ELSE /\ l_step' = "idle"
                   /\ UNCHANGED <<logs, scan, users, l_pc, l_u, l_t, attempts,
                             l_nonce, l_gas>>
       \/ \* get_logs or process_log raises: the function returns []
          IF LiqAwaiting
            THEN /\ logs' = <<>>
                 /\ users' = <<>>
                 /\ scan' = "failed"
                 /\ StartLoops(<<>>)
            ELSE /\ l_step' = "idle"
                 /\ UNCHANGED <<logs, scan, users, l_pc, l_u, l_t, attempts,
                             l_nonce, l_gas>>
       \/ \* get_logs never returns
          /\ l_step' = "hung"
          /\ UNCHANGED <<logs, scan, users, l_pc, l_u, l_t, attempts,
                             l_nonce, l_gas>>
    /\ UNCHANGED <<l_loop, l_cancel, collaterals, results>>
    /\ UNCHANGED l_status
    /\ UNCHANGED <<walletFile, chain_nonce, priceVars, sideVars>>

\* Outcomes of one blocking web3 call inside perform_liquidation
CallOutcomes == {"ok", "error", "hang"}

\* PL_EstimateGas as it would be with the fallback update_blockchain_price
\* has: a failed estimation goes on with a default gas limit
PL_EstimateGas_ErrorFallsBack ==
    /\ l_step = "estimate"
    /\ \E o \in CallOutcomes :
         CASE o = "ok"    -> /\ l_step' = "nonce"
                             /\ l_gas' = "estimated"
                             /\ UNCHANGED <<l_pc, l_u, l_t, attempts, results,
                                            l_nonce>>
           [] o = "error" -> /\ l_step' = "nonce"
                             /\ l_gas' = "default"
                             /\ UNCHANGED <<l_pc, l_u, l_t, attempts, results,
                                            l_nonce>>
           [] o = "hang"  -> /\ l_step' = "hung"
                             /\ UNCHANGED <<l_pc, l_u, l_t, attempts, results,
                                            l_nonce, l_gas>>
    /\ UNCHANGED <<l_loop, l_cancel, collaterals, logs, scan, users>>
    /\ UNCHANGED l_status
    /\ UNCHANGED <<walletFile, chain_nonce, priceVars, sideVars>>

\* estimate_gas of liquidate(user, token), line 87
PL_EstimateGas ==
    /\ l_step = "estimate"
    /\ \E o \in CallOutcomes :
         CASE o = "ok"    -> /\ l_step' = "nonce"
                             /\ l_gas' = "estimated"
                             /\ UNCHANGED <<l_pc, l_u, l_t, attempts, results,
                                            l_nonce>>
           [] o = "error" -> PLReturn(FALSE)
           [] o = "hang"  -> /\ l_step' = "hung"
                             /\ UNCHANGED <<l_pc, l_u, l_t, attempts, results,
                                            l_nonce, l_gas>>
    /\ UNCHANGED <<l_loop, l_cancel, collaterals, logs, scan, users>>
    /\ UNCHANGED l_status
    /\ UNCHANGED <<walletFile, chain_nonce, priceVars, sideVars>>

\* The price job has read a nonce for a transaction it has not submitted yet
PriceHoldsNonce == p_loop = "Running" /\ p_pc \in {"gas", "gasprice", "send"}

\* The liquidation job has read a nonce for a transaction not submitted yet
LiqHoldsNonce == l_step = "send"

\* PL_Nonce as it would be if the jobs shared a lock on the signing account,
\* held from the nonce read to the submission
PL_Nonce_Locked ==
    /\ l_step = "nonce"
    /\ ~PriceHoldsNonce
    /\ \E o \in CallOutcomes :
         CASE o = "ok"    -> /\ l_nonce' = chain_nonce
                             /\ l_step' = "send"
                             /\ UNCHANGED <<l_pc, l_u, l_t, attempts, results,
                                            l_gas>>
           [] o = "error" -> PLReturn(FALSE)
           [] o = "hang"  -> /\ l_step' = "hung"
                             /\ UNCHANGED <<l_pc, l_u, l_t, attempts, results,
                                            l_nonce, l_gas>>
    /\ UNCHANGED <<l_loop, l_cancel, collaterals, logs, scan, users>>
    /\ UNCHANGED l_status
    /\ UNCHANGED <<walletFile, chain_nonce, priceVars, sideVars>>

\* get_transaction_count, build_transaction and sign_transaction, lines 91-102
PL_Nonce ==
    /\ l_step = "nonce"
    /\ \E o \in CallOutcomes :
         CASE o = "ok"    -> /\ l_nonce' = chain_nonce
                             /\ l_step' = "send"
                             /\ UNCHANGED <<l_pc, l_u, l_t, attempts, results,
                                            l_gas>>
           [] o = "error" -> PLReturn(FALSE)
           [] o = "hang"  -> /\ l_step' = "hung"
                             /\ UNCHANGED <<l_pc, l_u, l_t, attempts, results,
                                            l_nonce, l_gas>>
    /\ UNCHANGED <<l_loop, l_cancel, collaterals, logs, scan, users>>
    /\ UNCHANGED l_status
    /\ UNCHANGED <<walletFile, chain_nonce, priceVars, sideVars>>

\* send_raw_transaction, line 103
PL_Send ==
    /\ l_step = "send"
    /\ \E o \in SendOutcomes(CallOutcomes, l_nonce) :
         CASE o = "ok"    -> /\ l_step' = "receipt"
                             /\ UNCHANGED <<l_pc, l_u, l_t, attempts, results,
                                            l_nonce, l_gas>>
           [] o = "error" -> PLReturn(FALSE)
           [] o = "hang"  -> /\ l_step' = "hung"
                             /\ UNCHANGED <<l_pc, l_u, l_t, attempts, results,
                                            l_nonce, l_gas>>
    /\ UNCHANGED <<l_loop, l_cancel, collaterals, logs, scan, users>>
    /\ UNCHANGED l_status
    /\ UNCHANGED <<walletFile, chain_nonce, priceVars, sideVars>>

\* The pair of the running attempt is the last of the loops of lines 150-151
LastPair == l_t >= Len(collaterals) /\ l_u >= Len(users)

\* What perform_liquidation returns for a receipt of status st: line 107,
\* whatever the status
ReceiptReturn(st) == TRUE

\* wait_for_transaction_receipt(tx_hash), line 104: a receipt, whatever its
\* status, returns True; TimeExhausted and RPC errors are caught by line 109.
\* The status stays in view when the coroutine goes on to the end of the
\* cycle.
PL_Receipt ==
    /\ l_step = "receipt"
    /\ \/ \E st \in ReceiptStatus :
            /\ PLReturn(ReceiptReturn(st))
            /\ l_status' = IF LiqAwaiting /\ LastPair THEN st ELSE "none"
       \/ \E o \in CallOutcomes \ {"ok"} :
            /\ CASE o = "error" -> PLReturn(FALSE)
                 [] o = "hang"  -> /\ l_step' = "hung"
                                   /\ UNCHANGED <<l_pc, l_u, l_t, attempts,
                                                  results, l_nonce, l_gas>>
            /\ UNCHANGED l_status
    /\ UNCHANGED <<l_loop, l_cancel, collaterals, logs, scan, users>>
    /\ UNCHANGED <<walletFile, chain_nonce, priceVars, sideVars>>

----------------------------------------------------------------------------
(* start_periodic_liquidations()                                           *)

\* The loop body starts: await liquidate_task() with fresh locals.  From
\* "Sleeping" this is the return of asyncio.sleep(interval_seconds).
LiqLoopIterate ==
    /\ l_loop \in {"Start", "Sleeping"} /\ ~l_cancel
    /\ l_loop' = "Running"
    /\ l_pc' = "load_config"
    /\ collaterals' = <<>> /\ logs' = <<>> /\ users' = <<>>
    /\ scan' = "none"
    /\ l_u' = 0 /\ l_t' = 0
    /\ attempts' = <<>> /\ results' = <<>>
    /\ UNCHANGED <<l_cancel, l_step, l_nonce, l_gas>>
    /\ UNCHANGED l_status
    /\ UNCHANGED <<walletFile, chain_nonce, priceVars, sideVars>>

\* liquidate_task returned (line 163 caught what was raised): on to the sleep
LiqCycleReturn ==
    /\ LiqAwaiting
    /\ l_pc = "done"
    /\ l_loop' = "Sleeping"
    /\ l_gas' = "unset"
    /\ l_status' = "none"
    /\ UNCHANGED <<l_cancel, l_pc, l_step, collaterals, logs, scan, users, l_u, l_t,
                   attempts, results, l_nonce>>
    /\ UNCHANGED <<walletFile, chain_nonce, priceVars, sideVars>>

\* The shutdown hook calls cancel() on the loop task
LiqShutdown ==
    /\ l_loop # "Exited" /\ ~l_cancel
    /\ l_cancel' = TRUE
    /\ UNCHANGED <<l_loop, l_pc, l_step, collaterals, logs, scan, users, l_u, l_t,
                   attempts, results, l_nonce, l_gas>>
    /\ UNCHANGED l_status
    /\ UNCHANGED <<walletFile, chain_nonce, priceVars, sideVars>>

\* What the task does with the CancelledError raised at its await: the
\* `except Exception` of line 163 does not catch it and the loop has no handler
LiqOnCancel == "Exited"

\* CancelledError is raised at the await the task is suspended at; a call
\* running in the executor thread is not interrupted
LiqCancelled ==
    /\ l_cancel
    /\ l_loop # "Exited"
    /\ l_cancel' = FALSE
    /\ l_loop' = LiqOnCancel
    /\ l_pc' = IF l_loop = "Running" /\ l_pc # "done" THEN "aborted" ELSE l_pc
    /\ UNCHANGED <<l_step, collaterals, logs, scan, users, l_u, l_t, attempts,
                   results, l_nonce, l_gas>>
    /\ UNCHANGED l_status
    /\ UNCHANGED <<walletFile, chain_nonce, priceVars, sideVars>>

----------------------------------------------------------------------------
(* The signing account at the node                                         *)

\* Highest transaction count the account reaches
MaxNonce == 2

\* A transaction of the account is mined: one whose nonce is the account's
\* transaction count and that an attempt in progress has submitted.
\* get_transaction_count (default block) then returns one more.
ChainMine ==
    /\ chain_nonce < MaxNonce
    /\ \/ a_sent /\ p_nonce = chain_nonce
       \/ l_step = "receipt" /\ l_nonce = chain_nonce
    /\ chain_nonce' = chain_nonce + 1
    /\ UNCHANGED <<walletFile, priceVars, liqVars, sideVars>>

----------------------------------------------------------------------------
(* The manual triggers                                                     *)

Jobs == {"price", "liq"}

\* Most cycles one trigger adds in a behaviour
MaxTriggers == 2

\* The coroutine start_periodic_updates / start_periodic_liquidations awaits
\* in each iteration
LoopTask(j) == IF j = "price" THEN "update_price_task" ELSE "liquidate_task"

\* Seconds of the wait_for around it (0: it is awaited without one)
LoopTimeout(j) == IF j = "price" THEN 300 ELSE 0

\* The coroutine a cycle added by schedule_price_updates /
\* schedule_liquidation runs
TriggerTask(j) == IF j = "price" THEN "update_price_task" ELSE "liquidate_task"

\* Seconds of the wait_for (and handlers) the added task has around it:
\* safe_update_task for the price job; liquidate_task itself is added for
\* the liquidation job (0: no wait_for)
TriggerTimeout(j) == IF j = "price" THEN 300 ELSE 0

NoManual == [pending |-> 0, running |-> 0, returned |-> 0, timed_out |-> 0,
             acks |-> 0]

\* Cycles the trigger of job j has added so far
Triggered(j) ==
    manual[j].pending + manual[j].running + manual[j].returned
        + manual[j].timed_out

\* The body of a trigger: add_task, then return the status dict.  The
\* background task starts after the response has been sent.
Schedule(j) ==
    /\ Triggered(j) < MaxTriggers
    /\ manual' = [manual EXCEPT ![j].pending = @ + 1, ![j].acks = @ + 1]
    /\ UNCHANGED <<walletFile, chain_nonce, priceVars, liqVars, rate_call,
                   authVars, dbVars>>

schedule_price_updates == Schedule("price")

schedule_liquidation == Schedule("liq")

\* BackgroundTasks starts an added task
ManualCycleStart(j) ==
    /\ manual[j].pending > 0
    /\ manual' = [manual EXCEPT ![j].pending = @ - 1, ![j].running = @ + 1]
    /\ UNCHANGED <<walletFile, chain_nonce, priceVars, liqVars, rate_call,
                   authVars, dbVars>>

\* The task function of a manual cycle returns (both catch what is raised
\* inside them)
ManualCycleReturn(j) ==
    /\ manual[j].running > 0
    /\ manual' = [manual EXCEPT ![j].running = @ - 1, ![j].returned = @ + 1]
    /\ UNCHANGED <<walletFile, chain_nonce, priceVars, liqVars, rate_call,
                   authVars, dbVars>>

\* The wait_for around a manual cycle expires
ManualCycleTimeout(j) ==
    /\ TriggerTimeout(j) > 0
    /\ manual[j].running > 0
    /\ manual' = [manual EXCEPT ![j].running = @ - 1, ![j].timed_out = @ + 1]
    /\ UNCHANGED <<walletFile, chain_nonce, priceVars, liqVars, rate_call,
                   authVars, dbVars>>

----------------------------------------------------------------------------
(* The BTC / ETH rate computation.  Python floats are IEEE-754 doubles;    *)
(* naturals are bit sequences, most significant bit first, <<>> being 0.   *)

Front(b) == SubSeq(b, 1, Len(b) - 1)

Zeros(k) == [i \in 1..k |-> 0]

RECURSIVE Bits(_)
Bits(n) == IF n = 0 THEN <<>> ELSE Append(Bits(n \div 2), n % 2)

RECURSIVE Value(_)
Value(b) == IF b = <<>> THEN 0 ELSE 2 * Value(Front(b)) + b[Len(b)]

RECURSIVE Trim(_)
Trim(b) == IF b # <<>> /\ b[1] = 0 THEN Trim(Tail(b)) ELSE b

\* b * k + c by halves, the low half first: the low Len(b) bits of the
\* result and what is carried out of them
RECURSIVE TimesCarry(_, _, _)
TimesCarry(b, k, c) ==
    IF b = <<>> THEN [bits |-> <<>>, carry |-> c]
    ELSE IF c = 0 /\ k = 1 THEN [bits |-> b, carry |-> 0]
    ELSE IF Len(b) = 1
      THEN [bits |-> <<(b[1] * k + c) % 2>>, carry |-> (b[1] * k + c) \div 2]
      ELSE LET h  == Len(b) \div 2
               lo == TimesCarry(SubSeq(b, h + 1, Len(b)), k, c)
               hi == TimesCarry(SubSeq(b, 1, h), k, lo.carry)
           IN  [bits |-> hi.bits \o lo.bits, carry |-> hi.carry]

\* b * k + c
TimesPlus(b, k, c) ==
    LET p == TimesCarry(b, k, c) IN Bits(p.carry) \o p.bits

\* Quotient (Len(b) bits) and remainder of (r * 2^Len(b) + b) by d, by
\* halves, the high half first
RECURSIVE DivFrom(_, _, _)
DivFrom(b, d, r) ==
    IF b = <<>> THEN [q |-> <<>>, r |-> r]
    ELSE IF Len(b) = 1
      THEN LET t == 2 * r + b[1]
           IN  IF t >= d THEN [q |-> <<1>>, r |-> t - d]
                         ELSE [q |-> <<0>>, r |-> t]
      ELSE LET h  == Len(b) \div 2
               hi == DivFrom(SubSeq(b, 1, h), d, r)
               lo == DivFrom(SubSeq(b, h + 1, Len(b)), d, hi.r)
           IN  [q |-> hi.q \o lo.q, r |-> lo.r]

\* quotient (with leading zeros) and remainder of b by d
DivRem(b, d) == DivFrom(b, d, 0)

\* The double nearest to (b + f) * 2^e, ties to even, f a fraction that is
\* not zero iff sticky: a 53-bit significand m and an exponent, m * 2^e
RoundToDouble(b, sticky, e) ==
    LET n == Len(b) IN
    IF n <= 53
      THEN [m |-> b \o Zeros(53 - n), e |-> e - (53 - n)]
      ELSE LET keep  == SubSeq(b, 1, 53)
               below == sticky \/ \E i \in 55..n : b[i] = 1
               up    == b[54] = 1 /\ (below \/ keep[53] = 1)
               r     == IF up THEN TimesPlus(keep, 1, 1) ELSE keep
           IN  IF Len(r) = 54
                 THEN [m |-> SubSeq(r, 1, 53), e |-> e + (n - 53) + 1]
                 ELSE [m |-> r, e |-> e + (n - 53)]

\* The double nearest to b / d (b > 0): float("<b/100>") and int / 10
DoubleOfRatio(b, d) ==
    LET p == DivRem(b \o Zeros(64), d)
    IN  RoundToDouble(Trim(p.q), p.r # 0, -64)

\* x * k for a k that is a double itself
DoubleTimes(x, k) == RoundToDouble(TimesPlus(x.m, k, 0), FALSE, x.e)

\* int(x) of a positive double
Truncate(x) ==
    IF x.e >= 0 THEN x.m \o Zeros(x.e)
    ELSE IF -x.e >= 53 THEN <<>>
    ELSE SubSeq(x.m, 1, 53 + x.e)

\* math.ceil(x) of a positive double
Ceil(x) ==
    IF x.e >= 0 \/ \A i \in (53 + x.e + 1)..53 : i < 1 \/ x.m[i] = 0
      THEN Truncate(x)
      ELSE TimesPlus(Truncate(x), 1, 1)

\* int(math.ceil(price_usd * 10) / 10 * 1e8) for price_usd = float of the
\* decimal string cents / 100, as <<rate \div 10^6, rate % 10^6>>
Rate(cents) ==
    LET price_usd == DoubleOfRatio(Bits(cents), 100)
        tenths    == Ceil(DoubleTimes(price_usd, 10))
        scaled    == DoubleTimes(DoubleOfRatio(tenths, 10), 100000000)
        p         == DivRem(Truncate(scaled), 1000000)
    IN  <<Value(Trim(p.q)), p.r>>

\* Largest price_usd of the responses, in cents
MaxCents == 300

\* price_usd values of the responses, in cents
PriceSamples == (1..MaxCents) \cup {123456}

NoRateCall == [coin |-> "none", cents |-> 0, rate |-> <<0, 0>>]

RateReturn(coin) ==
    /\ rate_call.coin = "none"
    /\ rate_call.cents > 0
    /\ rate_call' = [rate_call EXCEPT !.coin = coin,
                                      !.rate = Rate(rate_call.cents)]
    /\ UNCHANGED <<walletFile, chain_nonce, priceVars, liqVars, manual,
                   authVars, dbVars>>

get_btc_to_usd == RateReturn("BTC")

get_eth_to_usd == RateReturn("ETH")

----------------------------------------------------------------------------
(* Wallet-signature authentication: utils/auth_utils.py, routes/auth.py    *)

AuthWallets == {"w1", "w2"}

\* Most nonces generated in a behaviour
MaxIssued == 2

\* Most times one (message, signature) pair is accepted in a behaviour
MaxAccepts == 2

\* Message texts: k > 0 is the message get_auth_message built around the k-th
\* nonce, 0 a text the API never issued
Messages == 0..MaxIssued

\* Signatures: the signature of a wallet's key over a message, or bytes from
\* which no address can be recovered
Signatures ==
    [signer : AuthWallets, message : Messages] \cup {[signer |-> "none", message |-> 0]}

NoNonce == [nonce |-> 0, expired |-> FALSE]

NoAuthResp == [case |-> "none", status |-> 0, detail |-> "", token |-> FALSE]

\* generate_nonce via get_auth_message: the cache entry of the wallet is
\* replaced by a new nonce that expires in five minutes
request_auth_message(w) ==
    /\ clock < MaxIssued
    /\ clock' = clock + 1
    /\ nonce_cache' = [nonce_cache EXCEPT ![w] = [nonce |-> clock + 1,
                                                  expired |-> FALSE]]
    /\ UNCHANGED <<accepted, auth_resp>>
    /\ UNCHANGED <<walletFile, chain_nonce, priceVars, liqVars, manual,
                   rate_call, dbVars>>

\* Five minutes pass after a nonce was stored
NonceExpires(w) ==
    /\ nonce_cache[w].nonce # 0
    /\ ~nonce_cache[w].expired
    /\ nonce_cache' = [nonce_cache EXCEPT ![w].expired = TRUE]
    /\ UNCHANGED <<clock, accepted, auth_resp>>
    /\ UNCHANGED <<walletFile, chain_nonce, priceVars, liqVars, manual,
                   rate_call, dbVars>>

\* recover_message(encode_defunct(text = m), signature = sig): the address
\* that signed m, "raise" if the signature is of another message's hash or
\* no signature at all ("other": an address that is not the claimed one)
Recover(m, sig) ==
    IF sig.signer = "none" THEN "raise"
    ELSE IF sig.message = m THEN sig.signer
    ELSE "other"

\* verify_signature(w, sig, m): what it returns and why
VerifyCase(w, sig, m) ==
    IF nonce_cache[w].nonce = 0 THEN "no_nonce"
    ELSE IF nonce_cache[w].expired THEN "expired"
    ELSE IF Recover(m, sig) = w THEN "valid"
    ELSE "bad_signature"

\* The cache after verify_signature: the entry is deleted when it has expired
\* and when the signature was valid
CacheAfterVerify(w, c) ==
    IF c \in {"expired", "valid"} THEN [nonce_cache EXCEPT ![w] = NoNonce]
    ELSE nonce_cache

\* The status with which an HTTPException raised inside the try block of
\* verify_wallet_signature leaves the handler: `except Exception` catches it
\* (HTTPException is an Exception) and raises the 500 of lines 200-203
VerifyRaised(status, detail) ==
    [status |-> 500, detail |-> "Error verifying wallet signature"]

\* POST /auth/verify for claimed wallet w, message text m and signature sig;
\* db: whether the database statements of lines 137-139 succeed
verify_wallet_signature(w, m, sig, db) ==
    LET c == VerifyCase(w, sig, m)
        failed == VerifyRaised(401, "Invalid signature")
        broken == VerifyRaised(500, "database error")
    IN  /\ c = "valid" => accepted[<<w, m>>] < MaxAccepts
        /\ nonce_cache' = CacheAfterVerify(w, c)
        /\ accepted' = IF c = "valid"
                         THEN [accepted EXCEPT ![<<w, m>>] = @ + 1]
                         ELSE accepted
        /\ auth_resp' =
             IF c # "valid"
               THEN [case |-> c, status |-> failed.status,
                     detail |-> failed.detail, token |-> FALSE]
             ELSE IF ~db
               THEN [case |-> c, status |-> broken.status,
                     detail |-> broken.detail, token |-> FALSE]
             ELSE [case |-> c, status |-> 200, detail |-> "", token |-> TRUE]
        /\ UNCHANGED clock
        /\ UNCHANGED <<walletFile, chain_nonce, priceVars, liqVars, manual,
                       rate_call, dbVars>>

AuthInit ==
    /\ nonce_cache = [w \in AuthWallets |-> NoNonce]
    /\ clock = 0
    /\ accepted = [p \in AuthWallets \X Messages |-> 0]
    /\ auth_resp = NoAuthResp

----------------------------------------------------------------------------
(* Profiles and business proposals: routes/profiles.py, routes/proposals.py *)
(* A handler runs from its start to its response without another request   *)
(* in between: the coroutines it awaits never suspend (analyze_wallet_      *)
(* address makes blocking calls only) and the server has one event loop.    *)

\* required_fields of update_my_profile
RequiredFields ==
    {"display_name", "email", "company_name", "company_position",
     "company_website", "company_description"}

NoProfile == [exists |-> FALSE, fields |-> {}, completed |-> FALSE]

\* The row INSERT ... (wallet_address, profile_completed) VALUES (.., false)
MinimalProfile == [exists |-> TRUE, fields |-> {}, completed |-> FALSE]

CompleteProfile ==
    [exists |-> TRUE, fields |-> RequiredFields, completed |-> TRUE]

\* Rows of wallet_profiles as found in the database when the server starts
ProfilesAtStart == {NoProfile, MinimalProfile, CompleteProfile}

\* Payloads of PUT /profiles/me: the required fields given a non-empty
\* value (set) and those given an empty one (clear)
ProfileUpdates ==
    { [set |-> RequiredFields, clear |-> {}],
      [set |-> RequiredFields \ {"email"}, clear |-> {}],
      [set |-> {"email"}, clear |-> {}],
      [set |-> {}, clear |-> {"email"}] }

\* Most proposal ids generated in a behaviour
MaxProposals == 3

TagNames == {"defi"}

NoApiResp == [op |-> "none", wallet |-> "none", case |-> "none", status |-> 0]

\* db.query(BusinessProposal).filter(proposer_wallet == w)
OwnedBy(w) == {p \in proposals : p.wallet = w}

\* POST /proposals/ as it would be without the check of lines 40-48
create_business_proposal_NoOwnerCheck(w, docs, tgs, commit) ==
    LET c == IF ~profiles[w].exists THEN "no_profile"
             ELSE IF ~profiles[w].completed THEN "incomplete"
             ELSE IF ~commit THEN "db_error"
             ELSE "created"
    IN  /\ created < MaxProposals
        /\ api_resp' = [op |-> "create", wallet |-> w, case |-> c,
                        status |-> CASE c = "no_profile" -> 400
                                     [] c = "incomplete" -> 400
                                     [] c = "db_error" -> 409
                                     [] c = "created" -> 201]
        /\ IF c \in {"created", "db_error"}
             THEN created' = created + 1
             ELSE UNCHANGED created
        /\ IF c = "created"
             THEN /\ proposals' = proposals \cup
                        {[id |-> created + 1, wallet |-> w, docs |-> docs,
                          tags |-> tgs]}
                  /\ tags' = tags \cup tgs
             ELSE UNCHANGED <<proposals, tags>>
        /\ UNCHANGED profiles
        /\ UNCHANGED <<walletFile, chain_nonce, priceVars, liqVars, manual,
                       rate_call, authVars>>

\* POST /proposals/ as it would be without the check of line 67
create_business_proposal_NoCompletedCheck(w, docs, tgs, commit) ==
    LET c == IF OwnedBy(w) # {} THEN "has_proposal"
             ELSE IF ~profiles[w].exists THEN "no_profile"
             ELSE IF ~commit THEN "db_error"
             ELSE "created"
    IN  /\ created < MaxProposals
        /\ api_resp' = [op |-> "create", wallet |-> w, case |-> c,
                        status |-> CASE c = "has_proposal" -> 403
                                     [] c = "no_profile" -> 400
                                     [] c = "db_error" -> 409
                                     [] c = "created" -> 201]
        /\ IF c \in {"created", "db_error"}
             THEN created' = created + 1
             ELSE UNCHANGED created
        /\ IF c = "created"
             THEN /\ proposals' = proposals \cup
                        {[id |-> created + 1, wallet |-> w, docs |-> docs,
                          tags |-> tgs]}
                  /\ tags' = tags \cup tgs
             ELSE UNCHANGED <<proposals, tags>>
        /\ UNCHANGED profiles
        /\ UNCHANGED <<walletFile, chain_nonce, priceVars, liqVars, manual,
                       rate_call, authVars>>

\* POST /proposals/ by the authenticated wallet w with docs documents and
\* the tags tgs; commit: whether db.commit() of line 134 succeeds
create_business_proposal(w, docs, tgs, commit) ==
    LET c == IF OwnedBy(w) # {} THEN "has_proposal"
             ELSE IF ~profiles[w].exists THEN "no_profile"
             ELSE IF ~profiles[w].completed THEN "incomplete"
             ELSE IF ~commit THEN "db_error"
             ELSE "created"
    IN  /\ created < MaxProposals
        /\ api_resp' = [op |-> "create", wallet |-> w, case |-> c,
                        status |-> CASE c = "has_proposal" -> 403
                                     [] c = "no_profile" -> 400
                                     [] c = "incomplete" -> 400
                                     [] c = "db_error" -> 409
                                     [] c = "created" -> 201]
        /\ IF c \in {"created", "db_error"}
             THEN created' = created + 1
             ELSE UNCHANGED created
        /\ IF c = "created"
             THEN /\ proposals' = proposals \cup
                        {[id |-> created + 1, wallet |-> w, docs |-> docs,
                          tags |-> tgs]}
                  /\ tags' = tags \cup tgs
             ELSE UNCHANGED <<proposals, tags>>
        /\ UNCHANGED profiles
        /\ UNCHANGED <<walletFile, chain_nonce, priceVars, liqVars, manual,
                       rate_call, authVars>>

\* DELETE /proposals/{id} by the authenticated wallet w; the documents go
\* with the proposal (cascade), the tags rows stay
delete_business_proposal(w, id) ==
    LET found == {p \in proposals : p.id = id}
        c == IF found = {} THEN "not_found"
             ELSE IF \E p \in found : p.wallet # w THEN "not_owner"
             ELSE "deleted"
    IN  /\ api_resp' = [op |-> "delete", wallet |-> w, case |-> c,
                        status |-> CASE c = "not_found" -> 404
                                     [] c = "not_owner" -> 403
                                     [] c = "deleted" -> 200]
        /\ proposals' = IF c = "deleted" THEN proposals \ found ELSE proposals
        /\ UNCHANGED <<profiles, tags, created>>
        /\ UNCHANGED <<walletFile, chain_nonce, priceVars, liqVars, manual,
                       rate_call, authVars>>

\* GET /profiles/me: a wallet without a row gets the minimal one
get_my_profile(w) ==
    /\ profiles' = IF profiles[w].exists THEN profiles
                   ELSE [profiles EXCEPT ![w] = MinimalProfile]
    /\ api_resp' = [op |-> "get_profile", wallet |-> w, case |-> "ok",
                    status |-> 200]
    /\ UNCHANGED <<proposals, tags, created>>
    /\ UNCHANGED <<walletFile, chain_nonce, priceVars, liqVars, manual,
                   rate_call, authVars>>

\* datetime.now(datetime.timezone.utc) of line 212, `datetime` being the
\* class imported by `from datetime import datetime`: the class has no
\* attribute timezone
NowUtc == "AttributeError"

\* PUT /profiles/me by the authenticated wallet w
update_my_profile(w, upd) ==
    LET combined    == (profiles[w].fields \ upd.clear) \cup upd.set
        is_complete == RequiredFields \subseteq combined
    IN  /\ IF NowUtc = "AttributeError"
             THEN \* handler of lines 311-317: rollback, 500
                  /\ api_resp' = [op |-> "update", wallet |-> w,
                                  case |-> "error", status |-> 500]
                  /\ UNCHANGED profiles
             ELSE /\ api_resp' = [op |-> "update", wallet |-> w,
                                  case |-> "ok", status |-> 200]
                  /\ profiles' = [profiles EXCEPT ![w] =
                                    [exists |-> TRUE, fields |-> combined,
                                     completed |-> is_complete]]
        /\ UNCHANGED <<proposals, tags, created>>
        /\ UNCHANGED <<walletFile, chain_nonce, priceVars, liqVars, manual,
                       rate_call, authVars>>

DbInit ==
    /\ profiles = [w \in AuthWallets |-> NoProfile]
    /\ proposals = {}
    /\ tags = {}
    /\ created = 0
    /\ api_resp = NoApiResp

----------------------------------------------------------------------------

SideInit ==
    /\ manual = [j \in Jobs |-> NoManual]
    /\ rate_call = NoRateCall
    /\ AuthInit
    /\ DbInit

LiqInit ==
    /\ l_loop = "Start"
    /\ l_cancel = FALSE
    /\ l_pc = "idle"
    /\ l_step = "idle"
    /\ collaterals = <<>> /\ logs = <<>> /\ users = <<>>
    /\ l_u = 0 /\ l_t = 0
    /\ attempts = <<>> /\ results = <<>>
    /\ l_nonce = -1
    /\ scan = "none"
    /\ l_gas = "unset"
    /\ l_status = "none"

PriceInit ==
    /\ p_loop = "Start"
    /\ p_last = "none"
    /\ p_cancel = FALSE
    /\ p_pc = "idle"
    /\ idr_rate = "Unset" /\ btc_rate = "Unset" /\ eth_rate = "Unset"
    /\ private_key = "Unset"
    /\ p_i = 0 /\ p_try = 1 /\ success = FALSE
    /\ calls = ZeroCalls /\ sent = ZeroCalls
    /\ a_sent = FALSE /\ a_end = "none" /\ gas_limit = "unset"
    /\ p_nonce = -1 /\ p_workers = {}

Init ==
    /\ walletFile \in WalletFiles
    /\ chain_nonce = 0
    /\ PriceInit
    /\ LiqInit
    /\ SideInit

PriceNext ==
    \/ PriceLoopIterate
    \/ PriceLoadConfig
    \/ PriceGetIdr
    \/ PriceGetBtc
    \/ PriceGetEth
    \/ UBP_Nonce
    \/ UBP_EstimateGas
    \/ UBP_GasPrice
    \/ UBP_Send
    \/ UBP_Receipt
    \/ PriceRetry
    \/ PriceNextTarget
    \/ PriceCycleReturn
    \/ PriceCycleTimeout
    \/ PriceShutdown
    \/ PriceCancelled

\* The price loop task alone
PriceSpec == Init /\ [][PriceNext]_vars

\* The price loop task together with the executor threads its timeouts leave
\* behind; no shutdown
WorkerNext ==
    \/ PriceLoopIterate
    \/ PriceLoadConfig
    \/ PriceGetIdr
    \/ PriceGetBtc
    \/ PriceGetEth
    \/ UBP_Nonce
    \/ UBP_EstimateGas
    \/ UBP_GasPrice
    \/ UBP_Send
    \/ UBP_SendOutlived
    \/ PriceWorkerEnds
    \/ UBP_Receipt
    \/ PriceRetry
    \/ PriceNextTarget
    \/ PriceCycleReturn
    \/ PriceCycleTimeout

WorkerSpec == Init /\ [][WorkerNext]_vars

\* The price loop task with the send calls that outlive the abort of their
\* cycle by the cycle timeout or by the cancellation of the shutdown hook
AbortNext ==
    \/ PriceNext
    \/ PriceCycleTimeoutOutlived
    \/ PriceCancelledOutlived
    \/ PriceWorkerEnds

AbortSpec == Init /\ [][AbortNext]_vars

LiqNext ==
    \/ LiqLoopIterate
    \/ LiqLoadConfig
    \/ LiqGetCollaterals
    \/ LiqGetUsers
    \/ PL_EstimateGas
    \/ PL_Nonce
    \/ PL_Send
    \/ PL_Receipt
    \/ LiqCycleReturn
    \/ LiqShutdown
    \/ LiqCancelled

\* The liquidation loop task alone
LiqSpec == Init /\ [][LiqNext]_vars

\* Both jobs at work on the shared signing account (RPC_URL, wallets[0] of
\* the same file): the price cycle from its first update_blockchain_price
\* call on, a liquidation cycle from its first perform_liquidation on, and
\* the chain mining what they submit.
RaceInit ==
    /\ walletFile = "ok"
    /\ chain_nonce = 0
    /\ p_loop = "Running" /\ p_last = "none" /\ p_cancel = FALSE
    /\ p_pc = "nonce"
    /\ idr_rate = "Pos" /\ btc_rate = "Pos" /\ eth_rate = "Pos"
    /\ private_key = "ok"
    /\ p_i = 1 /\ p_try = 1 /\ success = FALSE
    /\ calls = [ZeroCalls EXCEPT ![1] = 1] /\ sent = ZeroCalls
    /\ a_sent = FALSE /\ a_end = "running" /\ gas_limit = "unset"
    /\ p_nonce = -1 /\ p_workers = {}
    /\ l_loop = "Running" /\ l_cancel = FALSE
    /\ l_pc = "liquidate" /\ l_step = "estimate"
    /\ collaterals = <<"t1">> /\ logs = <<"u1">> /\ users = <<"u1">>
    /\ l_u = 1 /\ l_t = 1
    /\ attempts = << <<"u1", "t1">> >> /\ results = <<>>
    /\ l_nonce = -1
    /\ scan = "ok"
    /\ l_gas = "unset"
    /\ l_status = "none"
    /\ SideInit

RaceNext ==
    \/ UBP_Nonce
    \/ UBP_EstimateGas
    \/ UBP_GasPrice
    \/ UBP_Send
    \/ UBP_Receipt
    \/ PriceRetry
    \/ PriceNextTarget
    \/ PriceCycleReturn
    \/ PL_EstimateGas
    \/ PL_Nonce
    \/ PL_Send
    \/ PL_Receipt
    \/ LiqCycleReturn
    \/ ChainMine

RaceSpec == RaceInit /\ [][RaceNext]_vars

\* The manual triggers and the cycles they add
ManualNext ==
    \/ schedule_price_updates
    \/ schedule_liquidation
    \/ \E j \in Jobs : ManualCycleStart(j)
    \/ \E j \in Jobs : ManualCycleReturn(j)
    \/ \E j \in Jobs : ManualCycleTimeout(j)

ManualSpec == Init /\ [][ManualNext]_vars

\* One rate call on a response with a price of PriceSamples
RateInit ==
    /\ walletFile \in WalletFiles
    /\ chain_nonce = 0
    /\ PriceInit
    /\ LiqInit
    /\ manual = [j \in Jobs |-> NoManual]
    /\ rate_call \in {[NoRateCall EXCEPT !.cents = c] : c \in PriceSamples}
    /\ AuthInit
    /\ DbInit

RateNext ==
    \/ get_btc_to_usd
    \/ get_eth_to_usd

RateSpec == RateInit /\ [][RateNext]_vars

\* Requests to the authentication endpoints, in any order
AuthNext ==
    \/ \E w \in AuthWallets : request_auth_message(w)
    \/ \E w \in AuthWallets : NonceExpires(w)
    \/ \E w \in AuthWallets, m \in 0..clock, sig \in Signatures, db \in BOOLEAN :
           verify_wallet_signature(w, m, sig, db)

AuthSpec == Init /\ [][AuthNext]_vars

\* Requests to the profile and proposal endpoints by authenticated wallets,
\* in any order, on a database that holds profiles and no proposal
ApiInit ==
    /\ walletFile \in WalletFiles
    /\ chain_nonce = 0
    /\ PriceInit
    /\ LiqInit
    /\ manual = [j \in Jobs |-> NoManual]
    /\ rate_call = NoRateCall
    /\ AuthInit
    /\ profiles \in [AuthWallets -> ProfilesAtStart]
    /\ proposals = {}
    /\ tags = {}
    /\ created = 0
    /\ api_resp = NoApiResp

ApiNext ==
    \/ \E w \in AuthWallets, docs \in 0..1, tgs \in SUBSET TagNames,
          commit \in BOOLEAN : create_business_proposal(w, docs, tgs, commit)
    \/ \E w \in AuthWallets, id \in 1..MaxProposals :
          delete_business_proposal(w, id)
    \/ \E w \in AuthWallets : get_my_profile(w)
    \/ \E w \in AuthWallets, upd \in ProfileUpdates : update_my_profile(w, upd)

ApiSpec == ApiInit /\ [][ApiNext]_vars

\* Each loop task taken alone: a behaviour runs one of the two loops, the
\* other one not being started.  The loops share no variable but the
\* read-only wallet file.
PriceAlone == l_loop = "Start" /\ ~l_cancel

LiqAlone == p_loop = "Start" /\ ~p_cancel

LoopsNext ==
    \/ PriceAlone /\ PriceNext
    \/ LiqAlone /\ LiqNext

LoopsSpec == Init /\ [][LoopsNext]_vars

\* asyncio runs a task whose await was cancelled: the CancelledError step of
\* a loop task with a pending cancellation is eventually taken
LoopsFairSpec ==
    /\ LoopsSpec
    /\ WF_vars(PriceAlone /\ PriceCancelled)
    /\ WF_vars(LiqAlone /\ LiqCancelled)

----------------------------------------------------------------------------
(* Properties of the price-update cycle                                    *)

\* Index of a symbol in Targets
Idx(sym) == CHOOSE i \in TargetIdx : Targets[i] = sym

\* update_price_task returned, in a cycle that loaded a usable signing key
PriceCycleCompleted == p_pc = "done" /\ private_key = "ok"

\* C1: in a price-update cycle that ran to its end, update_blockchain_price
\* was invoked once or twice for every configured target (never 0, never 3).
C1_EveryTargetOnceOrTwice ==
    PriceCycleCompleted => \A i \in TargetIdx : calls[i] \in {1, 2}

\* C2: when the BTC rate fetch fails and the IDR and ETH fetches succeed, the
\* completed cycle has submitted updates for IDRX, ETH and USDT and has made
\* no update_blockchain_price call for BTC.
C2_BtcFailureSkipsOnlyBtc ==
    (PriceCycleCompleted /\ btc_rate = "None" /\ idr_rate = "Pos"
        /\ eth_rate = "Pos")
    => /\ calls[Idx("BTC")] = 0
       /\ \A i \in TargetIdx \ {Idx("BTC")} : calls[i] >= 1
       /\ Cardinality({i \in TargetIdx : calls[i] >= 1}) = 3

\* C3: a target whose rate fetch returned None is skipped, that is
\* update_blockchain_price is never invoked for it in that cycle.
C3_NoneRateTargetSkipped ==
    private_key = "ok" =>
        \A i \in TargetIdx : RateOf(i) = "None" => calls[i] = 0

----------------------------------------------------------------------------
(* Properties of the liquidation cycle                                     *)

\* The pairs the nested loops of lines 150-151 visit, in order
RECURSIVE Product(_, _)
Product(us, ts) ==
    IF us = <<>> THEN <<>>
    ELSE [k \in 1..Len(ts) |-> <<Head(us), ts[k]>>] \o Product(Tail(us), ts)

IsPrefix(s, t) == Len(s) <= Len(t) /\ s = SubSeq(t, 1, Len(s))

\* C4: in a liquidation cycle perform_liquidation is invoked once for every
\* (user, token) pair of the loops, in order and without retry, and a failed
\* attempt for a pair does not prevent the attempt for the next pair: while
\* the cycle runs, every pair up to the one after the last returned attempt
\* has been attempted whatever the earlier attempts returned, and the
\* finished cycle has attempted all of them.
C4_OneAttemptPerPair ==
    /\ IsPrefix(attempts, Product(users, collaterals))
    /\ Len(results) <= Len(attempts)
    /\ (LiqAwaiting /\ l_pc = "liquidate") => Len(attempts) = Len(results) + 1
    /\ l_pc = "done" => /\ attempts = Product(users, collaterals)
                        /\ Len(results) = Len(attempts)

\* C4 witness: a finished cycle in which the first attempt failed and the
\* attempts for the following pairs were still made
C4_Witness ==
    /\ l_pc = "done"
    /\ Len(attempts) >= 3
    /\ results[1] = FALSE
    /\ results[2] = TRUE

\* Number of positions of sequence s that hold x
Occurrences(s, x) == Cardinality({k \in DOMAIN s : s[k] = x})

\* The distinct borrowers of the Borrowed logs of this cycle
BorrowerSet == Range(logs)

\* C5 as claimed: the finished cycle made |U| x |T| attempts and attempted no
\* (user, token) pair twice.
C5_NoPairTwice ==
    l_pc = "done" =>
        /\ Len(attempts) = Cardinality(BorrowerSet) * Len(collaterals)
        /\ \A u \in Users, t \in Tokens : Occurrences(attempts, <<u, t>>) <= 1

\* C5 amended: the finished cycle made |U| x |T| attempts, T being the list
\* getCollateralTokens returned, and attempted the pair (u, t) of a borrower u
\* as often as t occurs in that list (once when the list holds t once); pairs
\* of other addresses are not attempted.
C5_AttemptsAreUsersTimesTokens ==
    l_pc = "done" =>
        /\ Len(attempts) = Cardinality(BorrowerSet) * Len(collaterals)
        /\ \A u \in Users, t \in Tokens :
             Occurrences(attempts, <<u, t>>) =
                IF u \in BorrowerSet THEN Occurrences(collaterals, t) ELSE 0

\* C5 witness: two distinct borrowers, one of them with two Borrowed events,
\* and two tokens: four attempts
C5_Witness ==
    /\ l_pc = "done"
    /\ Len(logs) = 3
    /\ Cardinality(BorrowerSet) = 2
    /\ Len(collaterals) = 2
    /\ Len(attempts) = 4

\* A job step that ends the wait of a running liquidation cycle
LiqProgress ==
    \/ LiqLoadConfig
    \/ LiqGetCollaterals
    \/ LiqGetUsers
    \/ PL_EstimateGas
    \/ PL_Nonce
    \/ PL_Send
    \/ PL_Receipt
    \/ LiqCycleReturn

\* C7: a running liquidation cycle is never stuck: as long as the loop is in
\* the Running state some step of the job (a call returning, or the scheduler
\* aborting the cycle on its timeout) can take it on towards the sleep.
C7_LiquidationCycleBounded ==
    (l_loop = "Running" /\ ~l_cancel) => ENABLED LiqProgress

\* C15 as claimed: no attempt ends on its gas estimation: every failure of
\* the estimation, its timeout included, falls back to the default gas limit.
C15_AnyGasFailureFallsBack ==
    a_end # "gas_timeout"

\* C15 amended: the attempt leaves the gas estimation either towards the gas
\* price fetch, with the estimated limit or, after an error of the
\* estimation, the default one, or, after the timeout of the estimation, by
\* returning False with nothing submitted.
C15_GasFallbackExceptTimeout ==
    [][ (p_loop = "Running" /\ ~p_cancel /\ p_pc = "gas" /\ p_pc' # "gas"
          /\ p_loop' = "Running")
        => \/ /\ p_pc' = "gasprice"
              /\ gas_limit' \in {"estimated", "default"}
              /\ RateOf(p_i) = "None" => gas_limit' = "default"
              /\ a_end' = "running"
           \/ /\ a_end' = "gas_timeout"
              /\ p_pc' \in {"retry_sleep", "delay"}
              /\ ~success' /\ ~a_sent'
              /\ gas_limit' = "unset"
              /\ UNCHANGED sent ]_vars

\* C15 witness: a transaction submitted with the default gas limit
C15_Witness ==
    /\ gas_limit = "default"
    /\ a_sent
    /\ p_pc = "receipt"

\* C16: an attempt never ends by raising into update_price_task: whatever
\* fails, it leaves its awaits by returning a boolean to the loop over the
\* targets (which goes on with the retry or the delay, not with the handler
\* that ends the cycle), and the boolean is False for every failure.  A
\* timeout of the nonce fetch, of the gas price fetch or of the send returns
\* False at that step: nothing is submitted by the task in or after it.
C16_AttemptAlwaysReturnsBoolean ==
    [][ /\ (p_loop = "Running" /\ ~p_cancel /\ p_pc \in AttemptAwaits
              /\ p_pc' \notin AttemptAwaits /\ p_loop' = "Running")
             => /\ p_pc' \in {"retry_sleep", "delay"}
                /\ a_end' \notin {"running", "none"}
                /\ success' = (a_end' \in TrueEnds)
        /\ (a_end = "running" /\ a_end' = "nonce_timeout")
             => (p_pc = "nonce" /\ ~success' /\ ~a_sent' /\ UNCHANGED sent)
        /\ (a_end = "running" /\ a_end' = "gasprice_timeout")
             => (p_pc = "gasprice" /\ ~success' /\ ~a_sent' /\ UNCHANGED sent)
        /\ (a_end = "running" /\ a_end' = "send_timeout")
             => (p_pc = "send" /\ ~success' /\ ~a_sent' /\ UNCHANGED sent)
        /\ a_end' = "init_error" => (~success' /\ ~a_sent')
        /\ (a_end \notin {"running", "none"} /\ a_end' = a_end)
             => UNCHANGED <<a_sent, success>> ]_vars

\* C16 witness: an attempt that ended on the timeout of its nonce fetch has
\* returned False to the loop over the targets, which is about to retry
C16_Witness ==
    /\ a_end = "nonce_timeout"
    /\ p_loop = "Running"
    /\ p_pc = "retry_sleep"
    /\ ~success /\ ~a_sent
    /\ p_nonce = -1

\* C11: the retry is started by nothing but the False result of the first
\* attempt for the entry, and starts with a fresh nonce fetch; a first attempt
\* that returns False is retried whether or not its transaction was
\* broadcast.  (The witness is the state the claim says is reachable.)
C11_RetryIgnoresBroadcast ==
    [][ /\ (p_try = 1 /\ p_try' = 2)
             => /\ ~success /\ p_pc = "retry_sleep" /\ p_i' = p_i
                /\ p_nonce' = -1
                /\ private_key = "ok" => p_pc' = "nonce"
        /\ (p_try = 1 /\ a_end = "running" /\ a_end' \notin {"running", "none"}
              /\ ~success')
             => p_pc' = "retry_sleep" ]_vars

\* C11 witness: within one cycle the node took two transactions for one
\* entry, the second one submitted by the retry
C11_Witness ==
    /\ p_loop = "Running"
    /\ p_try = 2
    /\ a_sent
    /\ sent[p_i] = 2

\* C13: in a cycle, an attempt fetches its nonce only when every chain
\* operation the earlier attempts of the cycle started has finished,
\* executor threads included.
C13_StrictlySequential ==
    /\ (p_loop = "Running" /\ p_pc = "nonce")
         => \A w \in p_workers : w[1] \notin TargetIdx
    /\ l_step = "nonce" => Len(attempts) = Len(results) + 1

----------------------------------------------------------------------------
(* Properties of the two loops                                             *)

\* C12: no attempt of a job waits for the other job: while one job holds a
\* nonce it has read for a transaction it has not submitted yet, the nonce
\* read of the other job can go ahead, and two attempts that hold the same
\* nonce can both submit.
C12_NoSerializationAcrossJobs ==
    /\ (PriceHoldsNonce /\ l_step = "nonce") => ENABLED PL_Nonce
    /\ (LiqHoldsNonce /\ p_loop = "Running" /\ ~p_cancel /\ p_pc = "nonce")
         => ENABLED UBP_Nonce
    /\ (PriceHoldsNonce /\ LiqHoldsNonce /\ p_pc = "send"
          /\ p_nonce = l_nonce)
         => (ENABLED UBP_Send /\ ENABLED PL_Send)

\* C12 witness: an update of the price job and a liquidation, both signed with
\* the nonce the account still has, have both been submitted
C12_Witness ==
    /\ p_pc = "receipt" /\ a_sent
    /\ l_step = "receipt"
    /\ p_nonce = l_nonce
    /\ p_nonce = chain_nonce

\* A step that starts a price-update cycle
PriceCycleStarts == p_pc' = "load_config" /\ p_pc # "load_config"

\* A step that starts a liquidation cycle
LiqCycleStarts == l_pc' = "load_config" /\ l_pc # "load_config"

C6_TimeoutThenSleep ==
    [][ /\ (p_loop = "Running" /\ p_last' = "TimedOut")
             => (p_loop' = "Sleeping" /\ p_pc' = "aborted")
        /\ PriceCycleStarts => p_loop \in {"Start", "Sleeping"}
        /\ (p_loop = "Running" /\ p_last' # "none")
             => p_loop' \in {"Sleeping", "Exited"} ]_vars

\* C6 witness: the loop in its interval sleep after the timeout aborted a
\* cycle in the middle of the third target
C6_Witness ==
    /\ p_loop = "Sleeping"
    /\ p_last = "TimedOut"
    /\ p_pc = "aborted"
    /\ p_i = 3

\* A step of the price loop task other than its cancellation
PriceProgress ==
    \/ PriceLoopIterate
    \/ PriceLoadConfig
    \/ PriceGetIdr
    \/ PriceGetBtc
    \/ PriceGetEth
    \/ UBP_Nonce
    \/ UBP_EstimateGas
    \/ UBP_GasPrice
    \/ UBP_Send
    \/ UBP_Receipt
    \/ PriceRetry
    \/ PriceNextTarget
    \/ PriceCycleReturn
    \/ PriceCycleTimeout

\* C17: without a cancellation neither loop has a terminal state: wherever a
\* loop task stands, in a cycle of whatever outcome or in its sleep, a step
\* of its job can take it on (to the sleep, and from there to the next cycle).
C17_NoTerminalState ==
    /\ (p_loop # "Exited" /\ ~p_cancel) => ENABLED PriceProgress
    /\ (l_loop # "Exited" /\ ~l_cancel) => ENABLED (LiqLoopIterate \/ LiqProgress)

\* C8: once a cancellation is pending for a loop task, the task starts no
\* further cycle, the signal is not dropped with the loop going on, and the
\* task reaches the exited state; an exited loop starts no cycle.  For both
\* jobs, wherever the signal arrives.
C8_CancellationExits ==
    /\ [][ /\ (p_cancel \/ p_loop = "Exited") => ~PriceCycleStarts
           /\ p_cancel => (p_cancel' \/ p_loop' = "Exited")
           /\ p_loop = "Exited" => p_loop' = "Exited"
           /\ (l_cancel \/ l_loop = "Exited") => ~LiqCycleStarts
           /\ l_cancel => (l_cancel' \/ l_loop' = "Exited")
           /\ l_loop = "Exited" => l_loop' = "Exited" ]_vars
    /\ (p_cancel ~> p_loop = "Exited")
    /\ (l_cancel ~> l_loop = "Exited")

\* C8 witness: the price loop exited on a cancellation that arrived while a
\* cycle was running
C8_Witness ==
    /\ p_loop = "Exited"
    /\ p_last = "Cancelled"
    /\ ~p_cancel

\* C9 as claimed: the loop exits only from the inter-cycle sleep (or before its
\* first cycle), never out of a running cycle.
C9_ExitOnlyBetweenCycles ==
    [][ (p_loop' = "Exited" /\ p_loop # "Exited") => p_loop # "Running" ]_vars

\* C9 amended: cancellation is observed at the await the loop task is
\* suspended at, also in the middle of a cycle: the only step the task takes
\* with a pending cancellation is its exit, which interrupts a running cycle
\* there, so that no further target is processed and no further
\* update_blockchain_price call is made or continued by the task.
C9_CancellationInterruptsCycle ==
    [][ p_cancel =>
          /\ p_loop' = "Exited"
          /\ (p_loop = "Running" /\ p_pc # "done") => p_pc' = "aborted"
          /\ UNCHANGED <<calls, p_i, p_try, success, a_end>> ]_vars

\* C9 witness: the loop exited out of a running cycle whose last targets were
\* never processed
C9_Witness ==
    /\ p_loop = "Exited"
    /\ p_last = "Cancelled"
    /\ p_pc = "aborted"
    /\ calls[1] >= 1
    /\ calls[NTargets] = 0

\* C10: an attempt whose transaction was broadcast and whose confirmation
\* wait expired (by the 120 s of the library call or by the 150 s wrapper)
\* returned True, so its target is not retried.
C10_ExpiredConfirmationIsSuccess ==
    (a_sent /\ a_end \in {"confirm_lib_timeout", "confirm_wrapper_timeout"})
        => (success /\ p_pc # "retry_sleep")

\* C18: each manual trigger adds one cycle of the task function of the
\* periodic loop per call and returns its acknowledgment at once, and every
\* cycle it started is under a cycle-level timeout, for the liquidation
\* trigger as for the price trigger.
C18_TriggerCycleUnderTimeout ==
    \A j \in Jobs :
        /\ TriggerTask(j) = LoopTask(j)
        /\ manual[j].acks = Triggered(j)
        /\ manual[j].running > 0 => ENABLED ManualCycleTimeout(j)

\* C19: after a failed Borrowed-log scan the cycle has an empty user list,
\* makes no liquidation attempt and ends normally: liquidate_task is at its
\* return, the loop goes on to its sleep, and only a cancellation makes it
\* exit.
C19_FailedScanEndsCycleEmpty ==
    scan = "failed" =>
        /\ users = <<>>
        /\ attempts = <<>> /\ results = <<>>
        /\ l_pc = "done" /\ l_step = "idle"
        /\ (l_loop = "Running" /\ ~l_cancel) => ENABLED LiqCycleReturn
        /\ l_loop \in {"Running", "Sleeping", "Exited"}

\* C19 witness: the loop sleeps after a cycle whose scan failed, with
\* collateral tokens to liquidate for
C19_Witness ==
    /\ scan = "failed"
    /\ l_loop = "Sleeping"
    /\ collaterals # <<>>
    /\ users = <<>> /\ attempts = <<>>

\* C20: the rate returned for a BTC / ETH price is ceil(price * 10) * 10^7,
\* which is not below price * 10^8, and 123500000000 for the price 1234.56.
C20_RateRoundsUpToTenth ==
    rate_call.coin # "none" =>
        LET cents == rate_call.cents
            rate  == rate_call.rate
        IN  /\ rate = <<((cents + 9) \div 10) * 10, 0>>
            /\ rate[1] >= cents
            /\ cents = 123456 => rate = <<123500, 0>>

\* C21: POST /auth/verify with an outstanding nonce of the wallet and a
\* signature that does not verify for the claimed wallet is answered with
\* 401 "Invalid signature", and no access token is issued.
C21_InvalidSignatureIs401 ==
    auth_resp.case = "bad_signature" =>
        /\ auth_resp.status = 401
        /\ auth_resp.detail = "Invalid signature"
        /\ ~auth_resp.token

\* C22: over any sequence of request-message and verify operations, a given
\* (message, signature) pair is accepted at most once, also when the wallet
\* has requested a new message in between.
C22_PairAcceptedAtMostOnce ==
    \A p \in AuthWallets \X Messages : accepted[p] <= 1

\* C23: over any sequence of create and delete operations a wallet owns at
\* most one proposal, and a create by a wallet that owns a proposal is
\* answered 403 and changes no row.
C23_OneProposalPerWallet ==
    [][\A w \in AuthWallets :
          /\ Cardinality(OwnedBy(w))' <= 1
          /\ (api_resp'.op = "create" /\ api_resp'.wallet = w
                /\ OwnedBy(w) # {})
               => /\ api_resp'.status = 403
                  /\ UNCHANGED <<profiles, proposals, tags>>]_vars

\* C23 witness: a wallet that owns its one proposal, created after it had
\* deleted an earlier one, has just been refused another with 403.
C23_Witness ==
    /\ api_resp.op = "create" /\ api_resp.status = 403
    /\ \E p \in OwnedBy(api_resp.wallet) : p.id > 1
    /\ Cardinality(OwnedBy(api_resp.wallet)) = 1

C25_UpdateStoresCompleteness ==
    api_resp.op = "update" =>
        /\ api_resp.status = 200
        /\ profiles[api_resp.wallet].exists
        /\ profiles[api_resp.wallet].completed
             = (RequiredFields \subseteq profiles[api_resp.wallet].fields)

\* C26: in update_blockchain_price and in perform_liquidation the nonce is
\* read immediately before the transaction is built: while an attempt waits
\* for another RPC call (gas estimation, gas price) it holds no nonce yet.
C26_NonceReadJustBeforeBuild ==
    /\ (p_loop = "Running" /\ p_pc \in {"gas", "gasprice"}) => p_nonce = -1
    /\ l_step = "estimate" => l_nonce = -1

\* C27: perform_liquidation reads a nonce, signs and broadcasts only after
\* the gas estimation of the pair has succeeded; an attempt whose estimation
\* failed ends with False, no nonce read and nothing broadcast.
C27_NoNonceWithoutEstimate ==
    /\ l_gas # "estimated" =>
          /\ l_nonce = -1
          /\ l_step \notin {"nonce", "send", "receipt"}
    /\ (l_loop = "Running" /\ l_pc = "done" /\ attempts # <<>>
          /\ l_gas = "unset") =>
          /\ Len(results) = Len(attempts)
          /\ ~results[Len(results)]

\* C27 witness: the last attempt of a cycle has returned False with the gas
\* limit never set, while the account's transaction count is unchanged.
C27_Witness ==
    /\ l_loop = "Running" /\ l_pc = "done"
    /\ attempts # <<>> /\ Len(results) = Len(attempts)
    /\ ~results[Len(results)]
    /\ l_gas = "unset" /\ l_nonce = -1
    /\ chain_nonce = 0

C29_AnyReceiptIsSuccess ==
    /\ a_end \in {"receipt", "receipt_reverted"} =>
          /\ success
          /\ p_pc # "retry_sleep"
          /\ p_try = 1 => calls[p_i] = 1
    /\ l_status # "none" =>
          /\ results # <<>>
          /\ results[Len(results)]

\* C29 witness: the first price attempt for a target and the liquidation
\* attempt have both obtained the receipt of a reverted transaction and both
\* returned True; the price task is in the delay before the next target.
C29_Witness ==
    /\ a_end = "receipt_reverted" /\ success
    /\ p_try = 1 /\ p_pc = "delay"
    /\ l_status = "reverted"
    /\ results # <<>> /\ results[Len(results)]

\* C30: no updateAnswer transaction is broadcast for a target whose rate of
\* the cycle is None or zero, for IDRX, BTC and ETH alike.
C30_NoBroadcastWithoutRate ==
    \A i \in TargetIdx :
        (Targets[i] \in {"IDRX", "BTC", "ETH"} /\ Falsy(RateOf(i)))
            => sent[i] = 0

====
